---- MODULE Spec2Model ----
(***************************************************************************)
(* Pick-Up-Memories: the record store (src/src/stores/useAppStore.ts), the *)
(* storage service behind it (src/src/services/storage.ts) and the         *)
(* periodic notification check, as one state machine.                      *)
(*                                                                         *)
(* Timestamps are ISO-8601 strings of one fixed format in the code, and    *)
(* are compared as strings; they are modelled as the integers 1..MaxTime   *)
(* with the same order.  An absent optional timestamp (undefined) is None. *)
(*                                                                         *)
(* Every async store call is a task: the call action runs the synchronous  *)
(* prefix of the handler (up to its first await), and each later await is  *)
(* one task step, so that calls whose awaits overlap interleave exactly    *)
(* where the event loop lets them.                                         *)
(***************************************************************************)
EXTENDS Integers, Sequences, FiniteSets, TLC

\* ---------------------------------------------------------------- bounds
MaxTime == 2
MaxTasks == 2
MaxRecords == 2
MaxCalls == 2
MaxFaults == 2

\* undefined for sealUntil / autoDestroyAt; falsy in `x && x <= now`
None == 0

VARIABLES
    now,            \* the wall clock (new Date())
    records,        \* AppState.records, the store snapshot
    currentRecord,  \* AppState.currentRecord (NoRecord for null)
    isLoading,      \* AppState.isLoading
    error,          \* AppState.error ("" for null)
    filter,         \* AppState.filter
    sort,           \* AppState.sort
    fileRecords,    \* primary tier: pick-up-memories/records.json
    lsRecords,      \* fallback tier: localStorage['pick-up-memories-records']
    useFallback,    \* StorageService.useFallback
    tasks,          \* the async calls in flight, one slot each
    nextId,         \* ids handed out so far (Date.now()+random is fresh)
    calls,          \* number of caller-issued store calls so far
    faults,         \* number of steps in which an I/O call threw
    destroyed,      \* ids the storage service removed because autoDestroyAt passed
    settings,       \* AppState.settings ("null" for null)
    fileSettings,   \* primary tier: pick-up-memories/settings.json ("null": no file)
    lsSettings,     \* fallback tier: localStorage['pick-up-memories-settings']
    thrown,         \* message of the error the storage service threw last
    exported        \* the backup file exportData downloaded last

vars == <<now, records, currentRecord, isLoading, error, filter, sort,
          fileRecords, lsRecords, useFallback, tasks, nextId, calls,
          faults, destroyed, settings, fileSettings, lsSettings, thrown, exported>>

storeVars == <<records, currentRecord, settings, isLoading, error, filter, sort>>
storageVars == <<fileRecords, lsRecords, useFallback, fileSettings, lsSettings>>

\* ------------------------------------------------------------- data model
Times == 1..MaxTime
Ids == 1..MaxRecords
Slots == 1..MaxTasks

NoRecord == [id |-> 0]

\* EmotionalRecord (images and music fields carry no lifecycle logic)
EmotionalRecord(id, title, content, createdAt, updatedAt, isSealed, sealUntil, autoDestroyAt) ==
    [id |-> id, title |-> title, content |-> content,
     createdAt |-> createdAt, updatedAt |-> updatedAt,
     isSealed |-> isSealed, sealUntil |-> sealUntil, autoDestroyAt |-> autoDestroyAt]

NoRange == [start |-> 0, end |-> 0]

\* AppSettings documents: null / no document, the empty object {}, and two
\* settings objects told apart by their theme; defaultSettings is the light one
NoSettings == "null"
EmptySettings == "{}"
defaultSettings == "light"
SettingsDocs == {"light", "dark"}

\* the messages of the errors the storage service throws:
\* saveAllRecords: '保存记录失败', saveSettings: '保存设置失败'
SaveRecordsError == "save records failed"
SaveSettingsError == "save settings failed"

\* searchText '' and no dateRange: neither filter is applied
defaultFilter == [searchText |-> <<>>, dateRange |-> NoRange, showSealed |-> TRUE]
defaultSort == [field |-> "updatedAt", direction |-> "desc"]

\* ------------------------------------------------------- sequence helpers
SeqIds(s) == {s[i].id : i \in 1..Len(s)}

SeqRange(s) == {s[i] : i \in 1..Len(s)}

\* Array.prototype.find (NoRecord when nothing matches)
FindById(s, id) ==
    IF \E i \in 1..Len(s) : s[i].id = id
    THEN s[CHOOSE i \in 1..Len(s) : s[i].id = id /\ \A j \in 1..(i-1) : s[j].id # id]
    ELSE NoRecord

\* records.map(r => r.id === id ? rec : r)
ReplaceById(s, id, rec) == [i \in 1..Len(s) |-> IF s[i].id = id THEN rec ELSE s[i]]

\* a removal that drops the last element whatever its id
RemoveById_Last(s, id) == SubSeq(s, 1, Len(s) - 1)

\* records.filter(r => r.id !== id)
RemoveById(s, id) == SelectSeq(s, LAMBDA r : r.id # id)

\* ------------------------------------------------------------------ text
\* A string is the sequence of its UTF-16 code units.
\* a lower-casing that changes nothing
toLowerCase_Same(s) == s

toLowerCase(s) == [i \in 1..Len(s) |-> IF s[i] >= 65 /\ s[i] <= 90 THEN s[i] + 32 ELSE s[i]]

\* String.prototype.includes
includes(s, sub) ==
    \E k \in 0..(Len(s) - Len(sub)) : \A i \in 1..Len(sub) : s[k + i] = sub[i]

\* JSON.parse(stored) throws on this records document: a records.json of no
\* text, a localStorage item 'undefined'
Unparsable == <<NoRecord>>

\* the < of two strings: by the first differing code unit, a proper prefix first
StrLess(a, b) ==
    \E k \in 1..Len(b) :
        /\ \A i \in 1..(k - 1) : i <= Len(a) /\ a[i] = b[i]
        /\ (Len(a) = k - 1 \/ (Len(a) >= k /\ a[k] < b[k]))

\* String.prototype.trim: white space and line terminators at both ends go
IsSpace(c) == c \in {9, 10, 11, 12, 13, 32}

trim(s) ==
    LET kept == {i \in 1..Len(s) : ~IsSpace(s[i])}
    IN  IF kept = {} THEN <<>>
        ELSE SubSeq(s, CHOOSE i \in kept : \A j \in kept : i <= j,
                       CHOOSE i \in kept : \A j \in kept : i >= j)

\* --------------------------------------------------- lifecycle predicates
\* record.autoDestroyAt && record.autoDestroyAt <= now
Expired(r, t) == r.autoDestroyAt # None /\ r.autoDestroyAt <= t

\* the auto-unseal test without its `record.sealUntil &&` conjunct
DueForUnseal_NoPresenceTest(r, t) == r.isSealed /\ r.sealUntil <= t

\* record.isSealed && record.sealUntil && record.sealUntil <= now
DueForUnseal(r, t) == r.isSealed /\ r.sealUntil # None /\ r.sealUntil <= t

canViewSealed(r, t) ==
    IF ~r.isSealed THEN TRUE
    ELSE IF r.sealUntil = None THEN FALSE
    ELSE r.sealUntil <= t

\* records.filter(record => !(autoDestroyAt && autoDestroyAt <= now))
ValidRecords(recs, t) == SelectSeq(recs, LAMBDA r : ~Expired(r, t))

\* ---------------------------------------------------------------- storage
\* The storage service's state, threaded through its methods:
\*   file, ls : the two persisted documents; fb : useFallback;
\*   gone : the ids removed because their autoDestroyAt had passed;
\*   sfile, sls : the two persisted settings documents.
Storage == [file |-> fileRecords, ls |-> lsRecords, fb |-> useFallback,
            gone |-> destroyed, sfile |-> fileSettings, sls |-> lsSettings]

\* saveAllRecordsToLocalStorage; lsFail: localStorage.setItem throws
saveAllRecordsToLocalStorage(st, recs, lsFail) ==
    IF lsFail THEN [st |-> st, ok |-> FALSE, err |-> SaveRecordsError]
    ELSE [st |-> [st EXCEPT !.ls = recs], ok |-> TRUE, err |-> ""]

\* getAllRecordsFromLocalStorage: never throws, [] when the purge write throws
getAllRecordsFromLocalStorage(st, t, lsFail) ==
    LET stored == st.ls
        valid == ValidRecords(stored, t)
    IN  IF stored = Unparsable THEN [st |-> st, out |-> <<>>]
        ELSE IF Len(valid) # Len(stored)
        THEN IF lsFail
             THEN [st |-> st, out |-> <<>>]
             ELSE [st |-> [st EXCEPT !.ls = valid,
                                     !.gone = @ \cup (SeqIds(stored) \ SeqIds(valid))],
                   out |-> valid]
        ELSE [st |-> st, out |-> valid]

\* the catch block of getAllRecords
getAllRecordsCatch(st, t, lsFail) ==
    IF ~st.fb
    THEN getAllRecordsFromLocalStorage([st EXCEPT !.fb = TRUE], t, lsFail)
    ELSE [st |-> st, out |-> <<>>]

\* the catch block of saveAllRecords, entered when the primary write threw
saveAllRecordsCatch(st, recs, lsFail) ==
    IF ~st.fb
    THEN saveAllRecordsToLocalStorage([st EXCEPT !.fb = TRUE], recs, lsFail)
    ELSE [st |-> st, ok |-> FALSE, err |-> SaveRecordsError]

\* getSettingsFromLocalStorage: never throws
getSettingsFromLocalStorage(st) == st.sls

\* getSettings; fsFail: exists(), readTextFile() or JSON.parse throws
getSettings(st, fsFail) ==
    IF st.fb THEN [st |-> st, out |-> getSettingsFromLocalStorage(st)]
    ELSE IF ~fsFail THEN [st |-> st, out |-> st.sfile]
    ELSE [st |-> [st EXCEPT !.fb = TRUE],
          out |-> getSettingsFromLocalStorage(st)]

\* a fallback write that swallows the error of setItem
saveSettingsToLocalStorage_Silent(st, s, lsFail) ==
    IF lsFail THEN [st |-> st, ok |-> TRUE, err |-> ""]
    ELSE [st |-> [st EXCEPT !.sls = s], ok |-> TRUE, err |-> ""]

\* saveSettingsToLocalStorage; lsFail: localStorage.setItem throws
saveSettingsToLocalStorage(st, s, lsFail) ==
    IF lsFail THEN [st |-> st, ok |-> FALSE, err |-> SaveSettingsError]
    ELSE [st |-> [st EXCEPT !.sls = s], ok |-> TRUE, err |-> ""]

\* saveSettings; fsFail: writeTextFile throws
saveSettings(st, s, fsFail, lsFail) ==
    IF st.fb THEN saveSettingsToLocalStorage(st, s, lsFail)
    ELSE IF ~fsFail THEN [st |-> [st EXCEPT !.sfile = s], ok |-> TRUE, err |-> ""]
    ELSE saveSettingsToLocalStorage([st EXCEPT !.fb = TRUE], s, lsFail)

\* a saveRecord that pushes without looking for the id
Upsert_AlwaysPush(recs, rec) == Append(recs, rec)

\* saveRecord: replace the record of that id, or push
Upsert(recs, rec) ==
    IF rec.id \in SeqIds(recs) THEN ReplaceById(recs, rec.id, rec) ELSE Append(recs, rec)

\* ------------------------------------------------------------------ tasks
SaveOps == {"create", "update", "seal", "unseal"}

\* One async call: op the handler, pc its position, id/rec/snap what its
\* synchronous prefix computed, data the records in hand, auto whether a render
\* issued it; of an import, json/payload/psettings are the file's text and its
\* records and settings, backup/sbackup the backup importData took; psettings
\* is also the document updateSettings saves; sload: a loadSettings() of the
\* same Promise.all has not returned yet; pre, spre: the persisted records and
\* settings as they were when importData was called.
IdleTask == [op |-> "idle", pc |-> "idle", id |-> 0, rec |-> NoRecord,
             snap |-> <<>>, data |-> <<>>, auto |-> FALSE,
             payload |-> <<>>, backup |-> <<>>, json |-> TRUE,
             psettings |-> NoSettings, sbackup |-> NoSettings, sload |-> FALSE,
             pre |-> <<>>, spre |-> NoSettings]

NewTask(op, id, rec, snap, auto) ==
    [op |-> op, pc |-> "call", id |-> id, rec |-> rec, snap |-> snap,
     data |-> <<>>, auto |-> auto, payload |-> <<>>, backup |-> <<>>, json |-> TRUE,
     psettings |-> NoSettings, sbackup |-> NoSettings, sload |-> FALSE,
     pre |-> <<>>, spre |-> NoSettings]

FreeSlots(tks) == {t \in Slots : tks[t].op = "idle"}

FirstFree(tks) == CHOOSE t \in FreeSlots(tks) : \A u \in FreeSlots(tks) : t <= u

AllIdle == \A t \in Slots : tasks[t].op = "idle"

\* the message the store's catch block puts in AppState.error
ErrMsg(op) == op

\* getAllRecords up to its first await: the fallback tier is read at once,
\* the primary tier's exists()/readTextFile() are left in flight
StartGetAll(tk, st, t, lsFail) ==
    IF st.fb
    THEN LET g == getAllRecordsFromLocalStorage(st, t, lsFail)
         IN  [st |-> g.st, task |-> [tk EXCEPT !.pc = "gotAll", !.data = g.out]]
    ELSE [st |-> st, task |-> [tk EXCEPT !.pc = "awaitRead"]]

\* the caller once saveAllRecords returned: the store handlers go on to their
\* set(...), storageService.importData goes on to `if (data.settings)`
AfterSave(tk) ==
    [tk EXCEPT !.pc = IF tk.op # "import" THEN "commit"
                      ELSE IF tk.psettings # NoSettings THEN "awaitSettingsWrite"
                      ELSE "imported",
               !.data = <<>>]

\* the caller once saveAllRecords or saveSettings threw: the inner catch of
\* storageService.importData goes on to restore its backup, every other
\* caller fails
AfterThrow(tk) == [tk EXCEPT !.pc = "restore", !.data = <<>>]

Caught(tk) == tk.op = "import"

\* the inner catch of storageService.importData: the backup is written back
\* (the service is on the fallback tier by then), the settings only if the
\* records were and there were settings; lsFail, sFail: setItem throws
RestoreBackup(tk, st, lsFail, sFail) ==
    LET w == saveAllRecordsToLocalStorage(st, tk.backup, lsFail)
        v == saveSettingsToLocalStorage(w.st, tk.sbackup, sFail)
    IN  IF ~w.ok THEN w
        ELSE IF tk.sbackup # NoSettings THEN v
        ELSE w

\* saveAllRecords up to its first await: the fallback tier is written at once
\* (a throw fails the call), the primary tier's writeTextFile is left in flight
StartSave(tk, out, st, lsFail) ==
    IF st.fb
    THEN LET w == saveAllRecordsToLocalStorage(st, out, lsFail)
         IN  [st |-> w.st, task |-> IF w.ok THEN AfterSave(tk) ELSE AfterThrow(tk),
              failed |-> ~w.ok /\ ~Caught(tk), err |-> w.err]
    ELSE [st |-> st, task |-> [tk EXCEPT !.pc = "awaitWrite", !.data = out],
          failed |-> FALSE, err |-> ""]

\* what the caller of getAllRecords does with the records rd it returned:
\* saveRecord, deleteRecord (storage), loadRecords, checkScheduledNotifications
AfterGetAll(tk, rd, st, lsFail) ==
    IF tk.op \in SaveOps
    THEN StartSave(tk, Upsert(rd, tk.rec), st, lsFail)
    ELSE IF tk.op = "delete"
    THEN IF tk.id \in SeqIds(rd)
         THEN StartSave(tk, RemoveById(rd, tk.id), st, lsFail)
         ELSE [st |-> st, task |-> [tk EXCEPT !.pc = "commit", !.data = <<>>],
               failed |-> FALSE, err |-> ""]
    ELSE IF tk.op = "import"
    THEN [st |-> st, task |-> [tk EXCEPT !.pc = "awaitSettings", !.backup = rd],
          failed |-> FALSE, err |-> ""]
    ELSE IF tk.op = "export"
    THEN [st |-> st, task |-> [tk EXCEPT !.pc = "awaitSettings", !.data = rd],
          failed |-> FALSE, err |-> ""]
    ELSE IF tk.op = "load"
    THEN [st |-> st, task |-> [tk EXCEPT !.pc = "commit", !.data = rd],
          failed |-> FALSE, err |-> ""]
    ELSE [st |-> st, task |-> IdleTask, failed |-> FALSE, err |-> ""]

\* the storage variables after a storage method left the service in state st
SetStorage(st) ==
    /\ fileRecords' = st.file
    /\ lsRecords' = st.ls
    /\ useFallback' = st.fb
    /\ destroyed' = st.gone
    /\ fileSettings' = st.sfile
    /\ lsSettings' = st.sls

\* A task step's outcome o = [st, task, failed, err]: a failed storage call
\* lands in the store's catch (error set) and finally (isLoading false) blocks;
\* err is the message of the error saveAllRecords or saveSettings threw in the
\* step, if one did.  o0 is the outcome of the same step when no I/O call throws.
Settle(t, o, o0) ==
    /\ SetStorage(o.st)
    /\ thrown' = IF o.err # "" THEN o.err ELSE thrown
    /\ IF o.failed
       THEN /\ tasks' = [tasks EXCEPT ![t] = IdleTask]
            /\ error' = ErrMsg(tasks[t].op)
            /\ isLoading' = FALSE
       ELSE /\ tasks' = [tasks EXCEPT ![t] = o.task]
            /\ UNCHANGED <<error, isLoading>>
    /\ faults' = IF o = o0 THEN faults ELSE faults + 1
    /\ faults' <= MaxFaults
    /\ UNCHANGED <<now, exported, records, currentRecord, settings, filter, sort, nextId, calls>>

\* ------------------------------------------------------ storage task steps
\* ids the purge write of getAllRecords removes from the records document
Purged(st, valid, t) ==
    {r.id : r \in {x \in SeqRange(st.file) : Expired(x, t) /\ x.id \notin SeqIds(valid)}}

\* the saveAllRecords(validRecords) inside getAllRecords threw (outcome w): the
\* catch block of getAllRecords returns [], the service being on the fallback
\* tier by then
AfterPurgeThrow(tk, w, lsFail) ==
    LET o == AfterGetAll(tk, <<>>, w.st, lsFail)
    IN  [o EXCEPT !.err = IF @ # "" THEN @ ELSE w.err]

\* getAllRecords (primary tier) once exists()/readTextFile() settle.
\* fsFail: one of them, or JSON.parse, throws.
ReadOutcome(tk, st, t, fsFail, lsFail) ==
    LET valid == ValidRecords(st.file, t)
    IN  IF fsFail \/ st.file = Unparsable
        THEN LET g == getAllRecordsCatch(st, t, lsFail)
             IN  AfterGetAll(tk, g.out, g.st, lsFail)
        ELSE IF Len(valid) = Len(st.file)
        THEN AfterGetAll(tk, valid, st, lsFail)
        ELSE IF st.fb
        THEN LET w == saveAllRecordsToLocalStorage(st, valid, lsFail)
                 st1 == [w.st EXCEPT !.gone = @ \cup Purged(st, valid, t)]
             IN  IF w.ok
                 THEN AfterGetAll(tk, valid, st1, lsFail)
                 ELSE AfterPurgeThrow(tk, w, lsFail)
        ELSE [st |-> st, task |-> [tk EXCEPT !.pc = "awaitPurge", !.data = valid],
              failed |-> FALSE, err |-> ""]

ReadDone(t, fsFail, lsFail) ==
    /\ tasks[t].pc = "awaitRead"
    /\ Settle(t, ReadOutcome(tasks[t], Storage, now, fsFail, lsFail),
                 ReadOutcome(tasks[t], Storage, now, FALSE, FALSE))

\* the saveAllRecords(validRecords) inside getAllRecords once writeTextFile settles
PurgeOutcome(tk, st, t, fsFail, lsFail) ==
    LET valid == tk.data
        gone1 == st.gone \cup Purged(st, valid, t)
    IN  IF ~fsFail
        THEN AfterGetAll(tk, valid, [st EXCEPT !.file = valid, !.gone = gone1], lsFail)
        ELSE LET w == saveAllRecordsCatch(st, valid, lsFail)
             IN  IF w.ok
                 THEN AfterGetAll(tk, valid, [w.st EXCEPT !.gone = gone1], lsFail)
                 ELSE AfterPurgeThrow(tk, w, lsFail)

PurgeDone(t, fsFail, lsFail) ==
    /\ tasks[t].pc = "awaitPurge"
    /\ Settle(t, PurgeOutcome(tasks[t], Storage, now, fsFail, lsFail),
                 PurgeOutcome(tasks[t], Storage, now, FALSE, FALSE))

\* the caller of getAllRecords resumes after the fallback tier's read
Resume(t, lsFail) ==
    /\ tasks[t].pc = "gotAll"
    /\ Settle(t, AfterGetAll(tasks[t], tasks[t].data, Storage, lsFail),
                 AfterGetAll(tasks[t], tasks[t].data, Storage, FALSE))

\* saveAllRecords (primary tier) once writeTextFile settles
WriteOutcome(tk, st, fsFail, lsFail) ==
    IF ~fsFail
    THEN [st |-> [st EXCEPT !.file = tk.data], task |-> AfterSave(tk),
          failed |-> FALSE, err |-> ""]
    ELSE LET w == saveAllRecordsCatch(st, tk.data, lsFail)
         IN  [st |-> w.st, task |-> IF w.ok THEN AfterSave(tk) ELSE AfterThrow(tk),
              failed |-> ~w.ok /\ ~Caught(tk), err |-> w.err]

WriteDone(t, fsFail, lsFail) ==
    /\ tasks[t].pc = "awaitWrite"
    /\ Settle(t, WriteOutcome(tasks[t], Storage, fsFail, lsFail),
                 WriteOutcome(tasks[t], Storage, FALSE, FALSE))

\* ----------------------------------------------------- settings task steps
\* storageService.importData once its backup read `await this.getSettings()`
\* settles: saveAllRecords(data.records) starts
SettingsBackedUp(tk, st, fsFail, lsFail) ==
    LET g == getSettings(st, fsFail)
    IN  StartSave([tk EXCEPT !.sbackup = g.out], tk.payload, g.st, lsFail)

BackupSettings(t, fsFail, lsFail) ==
    /\ tasks[t].pc = "awaitSettings" /\ tasks[t].op = "import"
    /\ Settle(t, SettingsBackedUp(tasks[t], Storage, fsFail, lsFail),
                 SettingsBackedUp(tasks[t], Storage, FALSE, FALSE))

\* saveSettings settles: of importData's `await this.saveSettings(data.settings)`
\* or of updateSettings
SettingsWritten(tk, st, fsFail, lsFail) ==
    LET w == saveSettings(st, tk.psettings, fsFail, lsFail)
        done == [tk EXCEPT !.pc = IF tk.op = "import" THEN "imported" ELSE "commit"]
    IN  [st |-> w.st, task |-> IF w.ok THEN done ELSE AfterThrow(tk),
         failed |-> ~w.ok /\ ~Caught(tk), err |-> w.err]

SettingsWriteDone(t, fsFail, lsFail) ==
    /\ tasks[t].pc = "awaitSettingsWrite"
    /\ Settle(t, SettingsWritten(tasks[t], Storage, fsFail, lsFail),
                 SettingsWritten(tasks[t], Storage, FALSE, FALSE))

\* the inner catch of importData ran: whether or not the backup went back, the
\* error is rethrown, and the outer catch throws '导入数据失败' to the store
Restored(tk, st, lsFail, sFail) ==
    LET r == RestoreBackup(tk, st, lsFail, sFail)
    IN  [st |-> r.st, task |-> IdleTask, failed |-> TRUE, err |-> r.err]

Restore(t, lsFail, sFail) ==
    /\ tasks[t].pc = "restore"
    /\ Settle(t, Restored(tasks[t], Storage, lsFail, sFail),
                 Restored(tasks[t], Storage, FALSE, FALSE))

\* loadSettings: set({ settings: settings || defaultSettings })
SettingsLoaded(t, fsFail) ==
    /\ tasks[t].sload
    /\ LET g == getSettings(Storage, fsFail)
       IN  /\ SetStorage(g.st)
           /\ settings' = IF g.out = NoSettings THEN defaultSettings ELSE g.out
           /\ faults' = IF g = getSettings(Storage, FALSE) THEN faults ELSE faults + 1
           /\ faults' <= MaxFaults
    /\ tasks' = [tasks EXCEPT ![t] = IF @.pc = "done" THEN IdleTask
                                     ELSE [@ EXCEPT !.sload = FALSE]]
    /\ UNCHANGED <<now, exported, thrown, records, currentRecord, isLoading, error,
                   filter, sort, nextId, calls>>

\* a bundle without the sealed records
ExportBundle_Unsealed(recs, s, t) ==
    [at |-> t, records |-> SelectSeq(recs, LAMBDA r : ~r.isSealed),
     settings |-> IF s = NoSettings THEN EmptySettings ELSE s]

\* { version: '1.0.0', exportedAt, records, settings: settings || {} }
ExportBundle(recs, s, t) ==
    [at |-> t, records |-> recs, settings |-> IF s = NoSettings THEN EmptySettings ELSE s]

\* store.exportData once storageService.exportData returned: the bundle is
\* downloaded as a file
ExportDone(t, fsFail) ==
    /\ tasks[t].pc = "awaitSettings" /\ tasks[t].op = "export"
    /\ LET g == getSettings(Storage, fsFail)
       IN  /\ SetStorage(g.st)
           /\ exported' = ExportBundle(tasks[t].data, g.out, now)
           /\ faults' = IF g = getSettings(Storage, FALSE) THEN faults ELSE faults + 1
           /\ faults' <= MaxFaults
    /\ isLoading' = FALSE
    /\ tasks' = [tasks EXCEPT ![t] = IdleTask]
    /\ UNCHANGED <<now, thrown, records, currentRecord, settings, error,
                   filter, sort, nextId, calls>>

\* ------------------------------------------------------------ store: commit
\* a set(...) that clears currentRecord on every deleteRecord
CommitCurrent_AlwaysClear(tk) ==
    IF tk.op = "update" /\ currentRecord.id = tk.id THEN tk.rec
    ELSE IF tk.op = "delete" THEN NoRecord
    ELSE currentRecord

\* a createRecord that puts the new record first
CommitRecords_Prepend(tk) ==
    IF tk.op = "create" THEN <<tk.rec>> \o records
    ELSE IF tk.op \in {"update", "seal", "unseal"} THEN ReplaceById(tk.snap, tk.id, tk.rec)
    ELSE IF tk.op = "delete" THEN RemoveById(records, tk.id)
    ELSE IF tk.op = "settings" THEN records
    ELSE tk.data

\* the store handler after its `await storageService...` returned: set(...)
CommitRecords(tk) ==
    IF tk.op = "create" THEN Append(records, tk.rec)
    ELSE IF tk.op \in {"update", "seal", "unseal"} THEN ReplaceById(tk.snap, tk.id, tk.rec)
    ELSE IF tk.op = "delete" THEN RemoveById(records, tk.id)
    ELSE IF tk.op = "settings" THEN records
    ELSE tk.data

CommitCurrent(tk) ==
    IF tk.op = "update" /\ currentRecord.id = tk.id THEN tk.rec
    ELSE IF tk.op = "delete" /\ currentRecord.id = tk.id THEN NoRecord
    ELSE currentRecord

\* updateSettings: set({ settings: updatedSettings })
CommitSettings(tk) == IF tk.op = "settings" THEN tk.psettings ELSE settings

\* the handler returns, unless the loadSettings() of its Promise.all is pending
Returned(tk) == IF tk.sload THEN [tk EXCEPT !.pc = "done", !.data = <<>>] ELSE IdleTask

Commit(t) ==
    /\ tasks[t].pc = "commit"
    /\ records' = CommitRecords(tasks[t])
    /\ currentRecord' = CommitCurrent(tasks[t])
    /\ settings' = CommitSettings(tasks[t])
    /\ isLoading' = FALSE
    /\ tasks' = [tasks EXCEPT ![t] = Returned(tasks[t])]
    /\ UNCHANGED <<now, exported, error, filter, sort, nextId, calls, faults>>
    /\ UNCHANGED <<fileRecords, lsRecords, useFallback, destroyed, fileSettings, lsSettings, thrown>>

\* -------------------------------------------------------- inputs of calls
\* "T", "C" and an edited content "D", as code units
Titles == {<<84>>}
Contents == {<<67>>}
EditedContents == {<<68>>}

CreateInputs == [title : Titles, content : Contents]

\* inputs whose title or content is empty or white space only: "" and " "
BlankInputs ==
    [title : {<<>>, <<32>>}, content : Contents] \cup [title : Titles, content : {<<32>>}]
UpdateInputs == [id : Ids, content : EditedContents]
SealConfigs == [sealUntil : {None} \cup Times, autoDestroyAt : {None} \cup Times]
FilterPatches == [showSealed : BOOLEAN]
Sorts == {defaultSort, [field |-> "createdAt", direction |-> "asc"]}

\* -------------------------------------------------------------- store calls
\* The synchronous prefix of an async store handler that got as far as
\* storageService.saveRecord / deleteRecord / getAllRecords.
Issue(tk, lsFail) ==
    /\ FreeSlots(tasks) # {}
    /\ LET g == StartGetAll(tk, Storage, now, lsFail)
       IN  /\ SetStorage(g.st)
           /\ tasks' = [tasks EXCEPT ![FirstFree(tasks)] = g.task]
           /\ faults' = IF g = StartGetAll(tk, Storage, now, FALSE) THEN faults ELSE faults + 1
           /\ faults' <= MaxFaults
    /\ isLoading' = TRUE
    /\ error' = ""
    /\ UNCHANGED <<now, exported, thrown, records, currentRecord, settings, filter, sort>>

\* a rejection that does not reach the catch block
Reject_Silent(op) ==
    /\ isLoading' = FALSE
    /\ UNCHANGED <<now, exported, records, currentRecord, settings, filter, sort, tasks, faults, error>>
    /\ UNCHANGED <<fileRecords, lsRecords, useFallback, destroyed, fileSettings, lsSettings, thrown>>

\* `throw new Error('记录不存在')` inside try: catch sets error, finally isLoading
Reject(op) ==
    /\ error' = ErrMsg(op)
    /\ isLoading' = FALSE
    /\ UNCHANGED <<now, exported, records, currentRecord, settings, filter, sort, tasks, faults>>
    /\ UNCHANGED <<fileRecords, lsRecords, useFallback, destroyed, fileSettings, lsSettings, thrown>>

\* a record created with the seal flag set
newRecord_Sealed(id, input, t) ==
    EmotionalRecord(id, input.title, input.content, t, t, TRUE, None, None)

newRecord(id, input, t) ==
    EmotionalRecord(id, input.title, input.content, t, t, FALSE, None, None)

\* an update that leaves updatedAt as it was
updatedRecord_NoStamp(existing, input, t) ==
    [f \in DOMAIN existing |-> IF f \in DOMAIN input THEN input[f] ELSE existing[f]]

\* an update that also clears the seal flag
updatedRecord_Unseals(existing, input, t) ==
    [[f \in DOMAIN existing |-> IF f \in DOMAIN input THEN input[f] ELSE existing[f]]
        EXCEPT !.updatedAt = t, !.isSealed = FALSE]

\* { ...existingRecord, ...input, updatedAt: now }
updatedRecord(existing, input, t) ==
    [[f \in DOMAIN existing |-> IF f \in DOMAIN input THEN input[f] ELSE existing[f]]
        EXCEPT !.updatedAt = t]

\* a seal that stores the unseal time only
sealedRecord_NoDestroy(record, config, t) ==
    [record EXCEPT !.isSealed = TRUE, !.sealUntil = config.sealUntil, !.updatedAt = t]

\* { ...record, isSealed: true, sealUntil, autoDestroyAt, updatedAt: now }
sealedRecord(record, config, t) ==
    [record EXCEPT !.isSealed = TRUE, !.sealUntil = config.sealUntil,
                   !.autoDestroyAt = config.autoDestroyAt, !.updatedAt = t]

\* an unseal that leaves the destroy time in place
unsealedRecord_KeepDestroy(record, t) ==
    [record EXCEPT !.isSealed = FALSE, !.sealUntil = None, !.updatedAt = t]

\* { ...record, isSealed: false, sealUntil: undefined, autoDestroyAt: undefined, updatedAt: now }
unsealedRecord(record, t) ==
    [record EXCEPT !.isSealed = FALSE, !.sealUntil = None,
                   !.autoDestroyAt = None, !.updatedAt = t]

createRecord(input, lsFail) ==
    /\ calls < MaxCalls
    /\ nextId <= MaxRecords
    /\ Issue(NewTask("create", nextId, newRecord(nextId, input, now), <<>>, FALSE), lsFail)
    /\ nextId' = nextId + 1
    /\ calls' = calls + 1

updateRecord(input, lsFail) ==
    /\ calls < MaxCalls
    /\ LET existing == FindById(records, input.id)
       IN  IF existing = NoRecord
           THEN Reject("update")
           ELSE Issue(NewTask("update", input.id, updatedRecord(existing, input, now),
                              records, FALSE), lsFail)
    /\ calls' = calls + 1
    /\ UNCHANGED nextId

deleteRecord(id, lsFail) ==
    /\ calls < MaxCalls
    /\ Issue(NewTask("delete", id, NoRecord, <<>>, FALSE), lsFail)
    /\ calls' = calls + 1
    /\ UNCHANGED nextId

sealRecord(id, config, lsFail) ==
    /\ calls < MaxCalls
    /\ LET record == FindById(records, id)
       IN  IF record = NoRecord
           THEN Reject("seal")
           ELSE Issue(NewTask("seal", id, sealedRecord(record, config, now),
                              records, FALSE), lsFail)
    /\ calls' = calls + 1
    /\ UNCHANGED nextId

unsealRecord(id, lsFail) ==
    /\ calls < MaxCalls
    /\ LET record == FindById(records, id)
       IN  IF record = NoRecord
           THEN Reject("unseal")
           ELSE Issue(NewTask("unseal", id, unsealedRecord(record, now),
                              records, FALSE), lsFail)
    /\ calls' = calls + 1
    /\ UNCHANGED nextId

loadRecords(lsFail) ==
    /\ calls < MaxCalls
    /\ Issue(NewTask("load", 0, NoRecord, <<>>, FALSE), lsFail)
    /\ calls' = calls + 1
    /\ UNCHANGED nextId

\* NotificationService.checkScheduledNotifications, on its 60 s timer: it reads
\* through storageService.getAllRecords and touches no store state
checkScheduledNotifications(lsFail) ==
    /\ calls < MaxCalls
    /\ FreeSlots(tasks) # {}
    /\ LET tk == NewTask("notify", 0, NoRecord, <<>>, FALSE)
           g == StartGetAll(tk, Storage, now, lsFail)
       IN  /\ SetStorage(g.st)
           /\ tasks' = [tasks EXCEPT ![FirstFree(tasks)] = g.task]
           /\ faults' = IF g = StartGetAll(tk, Storage, now, FALSE) THEN faults ELSE faults + 1
           /\ faults' <= MaxFaults
    /\ calls' = calls + 1
    /\ UNCHANGED <<now, exported, thrown, nextId>>
    /\ UNCHANGED storeVars

\* store.initialize up to `await storageService.initialize()`
initialize ==
    /\ calls < MaxCalls
    /\ FreeSlots(tasks) # {}
    /\ tasks' = [tasks EXCEPT ![FirstFree(tasks)] =
                    [NewTask("init", 0, NoRecord, <<>>, FALSE) EXCEPT !.pc = "awaitInit"]]
    /\ isLoading' = TRUE
    /\ error' = ""
    /\ calls' = calls + 1
    /\ UNCHANGED <<now, exported, records, currentRecord, settings, filter, sort, nextId, faults>>
    /\ UNCHANGED <<fileRecords, lsRecords, useFallback, destroyed, fileSettings, lsSettings, thrown>>

\* storageService.initialize settles (ensureDirectoryExists swallows every
\* error, so line 32 always runs), then loadRecords() and loadSettings() start
InitDone(t) ==
    /\ tasks[t].pc = "awaitInit"
    /\ LET g == StartGetAll(NewTask("load", 0, NoRecord, <<>>, FALSE),
                            [Storage EXCEPT !.fb = FALSE], now, FALSE)
       IN  /\ SetStorage(g.st)
           /\ tasks' = [tasks EXCEPT ![t] = [g.task EXCEPT !.sload = TRUE]]
    /\ UNCHANGED faults
    /\ isLoading' = TRUE
    /\ error' = ""
    /\ UNCHANGED <<now, exported, thrown, records, currentRecord, settings, filter, sort,
                   nextId, calls>>

\* The records of an import file.  The file is any JSON the user picks: an
\* export bundle of this application, possibly edited, so its records carry
\* ids the application generated and any combination of the seal fields.
ImportShapes == [isSealed : BOOLEAN, sealUntil : {None, MaxTime}]

ImportRecords ==
    {EmotionalRecord(id, <<84>>, <<67>>, 1, 1, sh.isSealed, sh.sealUntil, None) :
        id \in 1..(nextId - 1), sh \in ImportShapes}

Payloads ==
    {<<>>} \cup {<<a>> : a \in ImportRecords}
           \cup {<<a, b>> : a \in ImportRecords, b \in ImportRecords}

\* An import file: json, whether its text is JSON at all; records and
\* settings, the members of that name of the parsed object (Unparsable, "null":
\* the object has no such member).  The bundles with records and settings:
WellFormedFiles == [json : {TRUE}, records : Payloads, settings : {defaultSettings}]

\* a text that is no JSON, and the JSON object {}: saveAllRecords(undefined)
\* stringifies to undefined, which writeTextFile encodes as no text and
\* localStorage.setItem stores as 'undefined'
MalformedFiles ==
    {[json |-> FALSE, records |-> Unparsable, settings |-> NoSettings],
     [json |-> TRUE, records |-> Unparsable, settings |-> NoSettings]}

\* The ids of an import file were handed out, by this installation or by
\* another one, and createRecord never generates one of them again
\* (Date.now() plus a random suffix): the first id not handed out, given that
\* the ids below n were and the file holds recs.
FreshId(recs, n) ==
    LET used == {id \in SeqIds(recs) : id >= n}
    IN  IF used = {} THEN n ELSE 1 + CHOOSE id \in used : \A other \in used : other <= id

\* store.importData up to `await file.text()`
importData(file) ==
    /\ calls < MaxCalls
    /\ FreeSlots(tasks) # {}
    /\ tasks' = [tasks EXCEPT ![FirstFree(tasks)] =
                    [NewTask("import", 0, NoRecord, <<>>, FALSE)
                        EXCEPT !.pc = "awaitText", !.json = file.json,
                               !.payload = file.records, !.psettings = file.settings,
                               !.pre = IF useFallback THEN lsRecords ELSE fileRecords,
                               !.spre = IF useFallback THEN lsSettings ELSE fileSettings]]
    /\ isLoading' = TRUE
    /\ error' = ""
    /\ calls' = calls + 1
    /\ nextId' = FreshId(file.records, nextId)
    /\ UNCHANGED <<now, exported, records, currentRecord, settings, filter, sort, faults>>
    /\ UNCHANGED <<fileRecords, lsRecords, useFallback, destroyed, fileSettings, lsSettings, thrown>>

\* file.text() settled: JSON.parse throws into the store's catch and finally
\* blocks, or it returns and storageService.importData starts with its backup
\* read, getAllRecords
FileRead(t, lsFail) ==
    /\ tasks[t].pc = "awaitText"
    /\ IF ~tasks[t].json
       THEN /\ tasks' = [tasks EXCEPT ![t] = IdleTask]
            /\ error' = ErrMsg("import")
            /\ isLoading' = FALSE
            /\ UNCHANGED <<records, currentRecord, settings, filter, sort, faults>>
            /\ UNCHANGED <<fileRecords, lsRecords, useFallback, destroyed,
                           fileSettings, lsSettings>>
       ELSE /\ LET g == StartGetAll(tasks[t], Storage, now, lsFail)
               IN  /\ SetStorage(g.st)
                   /\ tasks' = [tasks EXCEPT ![t] = g.task]
                   /\ faults' = IF g = StartGetAll(tasks[t], Storage, now, FALSE)
                                 THEN faults ELSE faults + 1
                   /\ faults' <= MaxFaults
            /\ UNCHANGED storeVars
    /\ UNCHANGED <<now, exported, thrown, nextId, calls>>

\* storageService.importData returned: store.importData reloads through
\* loadRecords() and loadSettings()
ImportDone(t, lsFail) ==
    /\ tasks[t].pc = "imported"
    /\ LET tk == [NewTask("load", 0, NoRecord, <<>>, FALSE)
                    EXCEPT !.payload = tasks[t].payload, !.pre = tasks[t].pre]
           g == StartGetAll(tk, Storage, now, lsFail)
       IN  /\ SetStorage(g.st)
           /\ tasks' = [tasks EXCEPT ![t] = [g.task EXCEPT !.sload = TRUE]]
           /\ faults' = IF g = StartGetAll(tk, Storage, now, FALSE)
                         THEN faults ELSE faults + 1
           /\ faults' <= MaxFaults
    /\ isLoading' = TRUE
    /\ error' = ""
    /\ UNCHANGED <<now, exported, thrown, records, currentRecord, settings, filter, sort,
                   nextId, calls>>

\* store.exportData up to the first await of storageService.exportData
exportData(lsFail) ==
    /\ calls < MaxCalls
    /\ Issue(NewTask("export", 0, NoRecord, <<>>, FALSE), lsFail)
    /\ calls' = calls + 1
    /\ UNCHANGED nextId

\* store.updateSettings up to `await storageService.saveSettings(...)`; the
\* patch gives the theme, so { ...settings, ...newSettings } is the patch
updateSettings(newSettings) ==
    /\ calls < MaxCalls
    /\ FreeSlots(tasks) # {}
    /\ tasks' = [tasks EXCEPT ![FirstFree(tasks)] =
                    [NewTask("settings", 0, NoRecord, <<>>, FALSE)
                        EXCEPT !.pc = "awaitSettingsWrite", !.psettings = newSettings]]
    /\ isLoading' = TRUE
    /\ error' = ""
    /\ calls' = calls + 1
    /\ UNCHANGED <<now, exported, records, currentRecord, settings, filter, sort, nextId, faults>>
    /\ UNCHANGED <<fileRecords, lsRecords, useFallback, destroyed, fileSettings, lsSettings, thrown>>

\* setCurrentRecord: set({ currentRecord: record })
setCurrentRecord(record) ==
    /\ currentRecord' = record
    /\ UNCHANGED <<now, exported, records, settings, isLoading, error, filter, sort,
                   tasks, nextId, calls, faults>>
    /\ UNCHANGED <<fileRecords, lsRecords, useFallback, destroyed, fileSettings, lsSettings, thrown>>

\* set({ filter: { ...filter, ...newFilter } })
setFilter(newFilter) ==
    /\ filter' = [f \in DOMAIN filter |->
                    IF f \in DOMAIN newFilter THEN newFilter[f] ELSE filter[f]]
    /\ UNCHANGED <<now, exported, records, currentRecord, settings, isLoading, error, sort, tasks, nextId, calls, faults>>
    /\ UNCHANGED <<fileRecords, lsRecords, useFallback, destroyed, fileSettings, lsSettings, thrown>>

setSort(newSort) ==
    /\ sort' = newSort
    /\ UNCHANGED <<now, exported, records, currentRecord, settings, isLoading, error, filter, tasks, nextId, calls, faults>>
    /\ UNCHANGED <<fileRecords, lsRecords, useFallback, destroyed, fileSettings, lsSettings, thrown>>

Tick ==
    /\ now < MaxTime
    /\ now' = now + 1
    /\ UNCHANGED <<tasks, nextId, calls, faults, exported>>
    /\ UNCHANGED storeVars
    /\ UNCHANGED <<fileRecords, lsRecords, useFallback, destroyed, fileSettings, lsSettings, thrown>>

\* ------------------------------------------------------ getFilteredRecords
\* the three filters, in the order of the code
SearchFilter(recs, f) ==
    IF f.searchText # <<>>
    THEN SelectSeq(recs, LAMBDA r :
            \/ includes(toLowerCase(r.title), toLowerCase(f.searchText))
            \/ includes(toLowerCase(r.content), toLowerCase(f.searchText)))
    ELSE recs

DateFilter(recs, f) ==
    IF f.dateRange # NoRange
    THEN SelectSeq(recs, LAMBDA r :
            r.createdAt >= f.dateRange.start /\ r.createdAt <= f.dateRange.end)
    ELSE recs

SealedFilter(recs, f) ==
    IF f.showSealed = FALSE
    THEN SelectSeq(recs, LAMBDA r : ~r.isSealed)
    ELSE recs

Filtered(recs, f) == SealedFilter(DateFilter(SearchFilter(recs, f), f), f)

\* the record the map callback returns for a record due for auto-unseal
shownUnsealed(r) == [r EXCEPT !.isSealed = FALSE, !.sealUntil = None]

AutoUnsealMap(recs, t) ==
    [i \in 1..Len(recs) |-> IF DueForUnseal(recs[i], t) THEN shownUnsealed(recs[i]) ELSE recs[i]]

\* a comparison of titles that ignores case
FieldLess_IgnoreCase(x, y, field) ==
    IF field = "title" THEN StrLess(toLowerCase(x), toLowerCase(y)) ELSE x < y

\* the sort comparator returns a negative number: a goes before b
FieldLess(x, y, field) == IF field = "title" THEN StrLess(x, y) ELSE x < y

Before(a, b, srt) ==
    IF srt.direction = "asc"
    THEN FieldLess(a[srt.field], b[srt.field], srt.field)
    ELSE FieldLess(b[srt.field], a[srt.field], srt.field)

\* Array.prototype.sort is stable: e goes before the first element it precedes
InsertSorted(s, e, srt) ==
    LET k == IF \E i \in 1..Len(s) : Before(e, s[i], srt)
             THEN CHOOSE i \in 1..Len(s) :
                    /\ Before(e, s[i], srt)
                    /\ \A j \in 1..(i - 1) : ~Before(e, s[j], srt)
             ELSE Len(s) + 1
    IN  SubSeq(s, 1, k - 1) \o <<e>> \o SubSeq(s, k, Len(s))

RECURSIVE SortRecords(_, _)
SortRecords(s, srt) ==
    IF s = <<>> THEN <<>>
    ELSE InsertSorted(SortRecords(SubSeq(s, 1, Len(s) - 1), srt), s[Len(s)], srt)

\* the value getFilteredRecords returns
FilteredRecords(recs, f, srt, t) == SortRecords(AutoUnsealMap(Filtered(recs, f), t), srt)

\* a map callback that calls unsealRecord for every sealed record
AutoUnsealDue_AllSealed(recs, f, t) == SelectSeq(Filtered(recs, f), LAMBDA r : r.isSealed)

\* the records whose map callback calls get().unsealRecord(record.id)
AutoUnsealDue(recs, f, t) == SelectSeq(Filtered(recs, f), LAMBDA r : DueForUnseal(r, t))

\* get().unsealRecord(id) for each due record in turn: each call runs its
\* synchronous prefix (it reads the snapshot and starts saveRecord) at once
RECURSIVE SpawnUnseals(_, _, _, _)
SpawnUnseals(due, st, tks, lsFail) ==
    IF due = <<>> THEN [st |-> st, tasks |-> tks]
    ELSE LET r == FindById(records, Head(due).id)
             g == StartGetAll(NewTask("unseal", r.id, unsealedRecord(r, now), records, TRUE),
                              st, now, lsFail)
         IN  SpawnUnseals(Tail(due), g.st, [tks EXCEPT ![FirstFree(tks)] = g.task], lsFail)

getFilteredRecords(lsFail) ==
    LET due == AutoUnsealDue(records, filter, now)
    IN  /\ Len(due) <= Cardinality(FreeSlots(tasks))
        /\ LET sp == SpawnUnseals(due, Storage, tasks, lsFail)
           IN  /\ SetStorage(sp.st)
               /\ tasks' = sp.tasks
               /\ faults' = IF sp = SpawnUnseals(due, Storage, tasks, FALSE)
                            THEN faults ELSE faults + 1
               /\ faults' <= MaxFaults
        /\ isLoading' = IF due = <<>> THEN isLoading ELSE TRUE
        /\ error' = IF due = <<>> THEN error ELSE ""
        /\ UNCHANGED <<now, exported, thrown, records, currentRecord, settings, filter, sort,
                       nextId, calls>>

\* ------------------------------------------------------------ specification
\* no backup file was downloaded yet
NoExport == [at |-> None, records |-> <<>>, settings |-> NoSettings]

\* records a previous session left in records.json: plain records made at time 1
Stored(n) == [i \in 1..n |-> EmotionalRecord(i, <<84>>, <<67>>, 1, 1, FALSE, None, None)]

\* The store as constructed, at the moment HomePage's mount effect has called
\* initialize(): no handler of the page can run before that.
Init ==
    /\ now = 1
    /\ records = <<>>
    /\ currentRecord = NoRecord
    /\ settings = NoSettings
    /\ isLoading = TRUE
    /\ error = ""
    /\ filter = defaultFilter
    /\ sort = defaultSort
    /\ \E n \in 0..MaxRecords : fileRecords = Stored(n) /\ nextId = n + 1
    /\ lsRecords = <<>>
    /\ useFallback = FALSE
    /\ tasks = [t \in Slots |-> IF t = 1
                  THEN [NewTask("init", 0, NoRecord, <<>>, FALSE) EXCEPT !.pc = "awaitInit"]
                  ELSE IdleTask]
    /\ calls = 0
    /\ faults = 0
    /\ destroyed = {}
    /\ fileSettings = NoSettings
    /\ lsSettings = NoSettings
    /\ thrown = ""
    /\ exported = NoExport

\* Fails: the outcomes the environment may give an I/O call in this step
\* (TRUE: it throws)
TaskStep(Fails) ==
    \E t \in Slots, fsFail \in Fails, lsFail \in Fails :
        \/ InitDone(t)
        \/ SettingsLoaded(t, fsFail)
        \/ ReadDone(t, fsFail, lsFail)
        \/ PurgeDone(t, fsFail, lsFail)
        \/ WriteDone(t, fsFail, lsFail)
        \/ Commit(t)

\* the step a call takes only once the service has switched to the fallback
\* tier, which it does only after an I/O call threw
FallbackStep(Fails) ==
    \E t \in Slots, lsFail \in Fails : Resume(t, lsFail)

\* a handler of the page calls a store operation
Call(Fails) ==
    \E lsFail \in Fails :
        \/ \E input \in CreateInputs : createRecord(input, lsFail)
        \/ \E input \in UpdateInputs : updateRecord(input, lsFail)
        \/ \E id \in Ids : deleteRecord(id, lsFail)
        \/ \E id \in Ids, config \in SealConfigs : sealRecord(id, config, lsFail)
        \/ \E id \in Ids : unsealRecord(id, lsFail)
        \/ loadRecords(lsFail)
        \/ initialize

\* a render evaluates getFilteredRecords; the notification timer fires
Background(Fails) ==
    \E lsFail \in Fails :
        \/ getFilteredRecords(lsFail)
        \/ checkScheduledNotifications(lsFail)
        \/ \E newFilter \in FilterPatches : setFilter(newFilter)

\* The page's handlers await each store call before the next one is issued;
\* renders, the auto-unseals they trigger and the notification timer are
\* awaited by nobody.
Next ==
    \/ AllIdle /\ Call({FALSE})
    \/ Background({FALSE})
    \/ TaskStep({FALSE})
    \/ Tick

Spec == Init /\ [][Next]_vars

\* Awaited store calls whose I/O calls may throw (at most MaxFaults steps do)
NextFaults ==
    \/ AllIdle /\ Call(BOOLEAN)
    \/ TaskStep(BOOLEAN)
    \/ FallbackStep(BOOLEAN)
    \/ Tick

SpecFaults == Init /\ [][NextFaults]_vars

\* Store calls issued while earlier ones are still in flight; no I/O call throws.
NextOverlap ==
    \/ Call({FALSE})
    \/ Background({FALSE})
    \/ TaskStep({FALSE})
    \/ Tick

SpecOverlap == Init /\ [][NextOverlap]_vars

\* The store after a completed initialize: the snapshot is the stored document,
\* whose records earlier sessions created and sealed.  Only renders, the
\* auto-unseals they trigger, reloads, the timer and the clock act.
SealShapes ==
    {[isSealed |-> FALSE, sealUntil |-> None, autoDestroyAt |-> None]}
    \cup [isSealed : {TRUE}, sealUntil : {None, 2}, autoDestroyAt : {None, 2}]

StoredShaped(shapes) ==
    [i \in DOMAIN shapes |->
        EmotionalRecord(i, <<84>>, <<67>>, 1, 1, shapes[i].isSealed,
                        shapes[i].sealUntil, shapes[i].autoDestroyAt)]

InitRead ==
    /\ now = 1
    /\ \E n \in 0..MaxRecords : \E shapes \in [1..n -> SealShapes] :
          /\ records = StoredShaped(shapes)
          /\ fileRecords = StoredShaped(shapes)
          /\ nextId = n + 1
    /\ currentRecord = NoRecord
    /\ settings = defaultSettings
    /\ isLoading = FALSE
    /\ error = ""
    /\ filter = defaultFilter
    /\ sort = defaultSort
    /\ lsRecords = <<>>
    /\ useFallback = FALSE
    /\ tasks = [t \in Slots |-> IdleTask]
    /\ calls = 0
    /\ faults = 0
    /\ destroyed = {}
    /\ fileSettings = NoSettings
    /\ lsSettings = NoSettings
    /\ thrown = ""
    /\ exported = NoExport

NextRead ==
    \/ Background({FALSE})
    \/ \E newSort \in Sorts : setSort(newSort)
    \/ loadRecords(FALSE)
    \/ AllIdle /\ initialize
    \/ TaskStep({FALSE})
    \/ Tick

SpecRead == InitRead /\ [][NextRead]_vars

\* the steps only an import takes
ImportStep(Fails) ==
    \E t \in Slots, fsFail \in Fails, lsFail \in Fails :
        \/ FileRead(t, lsFail)
        \/ BackupSettings(t, fsFail, lsFail)
        \/ SettingsWriteDone(t, fsFail, lsFail)
        \/ ImportDone(t, lsFail)

\* One operation at a time: a store call, an import or a render starts only
\* when nothing is in flight, and no I/O call throws.  The store starts loaded
\* with a document whose records earlier sessions created and sealed.
NextSeq ==
    \/ AllIdle /\ Call({FALSE})
    \/ AllIdle /\ \E file \in WellFormedFiles : importData(file)
    \/ AllIdle /\ \E input \in BlankInputs : createRecord(input, FALSE)
    \/ AllIdle /\ getFilteredRecords(FALSE)
    \/ TaskStep({FALSE})
    \/ ImportStep({FALSE})
    \/ Tick

SpecSeq == InitRead /\ [][NextSeq]_vars

\* Awaited operations only: every store call and import starts when nothing is
\* in flight, nothing is rendered, and no I/O call throws.
NextAwaited ==
    \/ AllIdle /\ Call({FALSE})
    \/ AllIdle /\ \E file \in WellFormedFiles : importData(file)
    \/ TaskStep({FALSE})
    \/ ImportStep({FALSE})
    \/ Tick

SpecAwaited == InitRead /\ [][NextAwaited]_vars

\* the import files of the export/import specifications: the malformed ones,
\* the bundle exportData downloaded, and two bundles made by hand
PortFiles ==
    MalformedFiles
    \cup (IF exported.at # None
          THEN {[json |-> TRUE, records |-> exported.records, settings |-> exported.settings]}
          ELSE {})
    \cup [json : {TRUE}, records : {Stored(1)}, settings : {NoSettings, "dark"}]

\* The backup file is carried to a fresh installation: empty storage on both
\* tiers and the store as constructed and initialized over it.
Reinstall ==
    /\ AllIdle
    /\ exported.at # None
    /\ records' = <<>>
    /\ currentRecord' = NoRecord
    /\ settings' = defaultSettings
    /\ isLoading' = FALSE
    /\ error' = ""
    /\ filter' = defaultFilter
    /\ sort' = defaultSort
    /\ fileRecords' = <<>>
    /\ lsRecords' = <<>>
    /\ useFallback' = FALSE
    /\ fileSettings' = NoSettings
    /\ lsSettings' = NoSettings
    /\ destroyed' = {}
    /\ thrown' = ""
    /\ UNCHANGED <<now, tasks, nextId, calls, faults, exported>>

\* the task steps of export, import, settings and record calls
PortStep(Fails) ==
    \E t \in Slots, fsFail \in Fails, lsFail \in Fails :
        \/ ReadDone(t, fsFail, lsFail)
        \/ PurgeDone(t, fsFail, lsFail)
        \/ WriteDone(t, fsFail, lsFail)
        \/ Commit(t)
        \/ SettingsLoaded(t, fsFail)
        \/ FileRead(t, lsFail)
        \/ BackupSettings(t, fsFail, lsFail)
        \/ SettingsWriteDone(t, fsFail, lsFail)
        \/ ImportDone(t, lsFail)
        \/ ExportDone(t, fsFail)

\* the steps taken only after an I/O call threw: a call resumes on the fallback
\* tier, importData restores its backup
RecoveryStep(Fails) ==
    \E t \in Slots, lsFail \in Fails, sFail \in Fails :
        \/ Resume(t, lsFail)
        \/ Restore(t, lsFail, sFail)

PortCall(Fails) ==
    \E lsFail \in Fails :
        \/ exportData(lsFail)
        \/ \E file \in PortFiles : importData(file)
        \/ \E newSettings \in SettingsDocs : updateSettings(newSettings)
        \/ \E input \in CreateInputs : createRecord(input, lsFail)

\* Export, import, settings updates and creates, one at a time, on a loaded
\* store; no I/O call throws; the backup file may go to a fresh installation.
NextPort ==
    \/ AllIdle /\ PortCall({FALSE})
    \/ PortStep({FALSE})
    \/ Reinstall
    \/ Tick

SpecPort == InitRead /\ [][NextPort]_vars

\* The same calls when I/O calls may throw (at most MaxFaults steps do)
NextPortFaults ==
    \/ AllIdle /\ PortCall(BOOLEAN)
    \/ PortStep(BOOLEAN)
    \/ RecoveryStep(BOOLEAN)
    \/ Tick

SpecPortFaults == InitRead /\ [][NextPortFaults]_vars

\* The list view.  A loaded store whose records carry the titles "a" and "B",
\* the contents "C" and "aB", both orders of createdAt and updatedAt, the first
\* of them plain or sealed until time 2; the page sets the search text, the sealed
\* filter and the sort, and renders.
ViewTitles == {<<97>>, <<66>>}
ViewContents == {<<67>>, <<97, 66>>}
ViewStamps == {<<1, 1>>, <<1, 2>>, <<2, 2>>}
ViewSeals == {[isSealed |-> FALSE, sealUntil |-> None], [isSealed |-> TRUE, sealUntil |-> 2]}

ViewRecord(id, title, content, stamp, seal) ==
    EmotionalRecord(id, title, content, stamp[1], stamp[2], seal.isSealed, seal.sealUntil, None)

ViewSnapshots ==
    {<<>>}
    \cup {<<ViewRecord(1, x[1], x[2], x[3], x[4])>> :
            x \in ViewTitles \X ViewContents \X ViewStamps \X ViewSeals}
    \cup {<<ViewRecord(1, x[1], x[2], x[3], x[4]), ViewRecord(2, y[1], y[2], y[3], y[4])>> :
            x \in ViewTitles \X ViewContents \X ViewStamps \X ViewSeals,
            y \in ViewTitles \X ViewContents \X ViewStamps \X {[isSealed |-> FALSE, sealUntil |-> None]}}

\* the search texts '', 'b' and 'Ab'
ViewFilters == [searchText : {<<>>, <<98>>, <<65, 98>>}, showSealed : BOOLEAN]
ViewSorts == [field : {"createdAt", "updatedAt", "title"}, direction : {"asc", "desc"}]

InitView ==
    /\ now = 1
    /\ \E snapshot \in ViewSnapshots :
          /\ records = snapshot
          /\ fileRecords = snapshot
          /\ nextId = Len(snapshot) + 1
    /\ currentRecord = NoRecord
    /\ settings = defaultSettings
    /\ isLoading = FALSE
    /\ error = ""
    /\ filter = defaultFilter
    /\ sort = defaultSort
    /\ lsRecords = <<>>
    /\ useFallback = FALSE
    /\ tasks = [t \in Slots |-> IdleTask]
    /\ calls = 0
    /\ faults = 0
    /\ destroyed = {}
    /\ fileSettings = NoSettings
    /\ lsSettings = NoSettings
    /\ thrown = ""
    /\ exported = NoExport

\* the steps of the auto-unseals a render starts
ViewStep ==
    \E t \in Slots :
        \/ ReadDone(t, FALSE, FALSE)
        \/ WriteDone(t, FALSE, FALSE)
        \/ Commit(t)

NextView ==
    \/ \E newFilter \in ViewFilters : setFilter(newFilter)
    \/ \E newSort \in ViewSorts : setSort(newSort)
    \/ getFilteredRecords(FALSE)
    \/ ViewStep
    \/ Tick

SpecView == InitView /\ [][NextView]_vars

\* The same store, its records sealed at an earlier session until time 1, with
\* or without destruction at time 2: the unseal time comes first.
LifeShapes ==
    {[isSealed |-> FALSE, sealUntil |-> None, autoDestroyAt |-> None]}
    \cup [isSealed : {TRUE}, sealUntil : {1}, autoDestroyAt : {None, 2}]

InitLife ==
    /\ now = 1
    /\ \E n \in 0..MaxRecords : \E shapes \in [1..n -> LifeShapes] :
          /\ records = StoredShaped(shapes)
          /\ fileRecords = StoredShaped(shapes)
          /\ nextId = n + 1
    /\ currentRecord = NoRecord
    /\ settings = defaultSettings
    /\ isLoading = FALSE
    /\ error = ""
    /\ filter = defaultFilter
    /\ sort = defaultSort
    /\ lsRecords = <<>>
    /\ useFallback = FALSE
    /\ tasks = [t \in Slots |-> IdleTask]
    /\ calls = 0
    /\ faults = 0
    /\ destroyed = {}
    /\ fileSettings = NoSettings
    /\ lsSettings = NoSettings
    /\ thrown = ""
    /\ exported = NoExport

SpecLife == InitLife /\ [][NextRead]_vars

\* ------------------------------------------------------------------ views
\* the records document of the tier the storage service reads and writes now
PersistedRecords == IF useFallback THEN lsRecords ELSE fileRecords

\* the settings document of that tier
PersistedSettings == IF useFallback THEN lsSettings ELSE fileSettings

\* what a getFilteredRecords call made in this state returns
Shown == FilteredRecords(records, filter, sort, now)

Mutating == {"create", "update", "delete", "seal", "unseal"}

\* the record an in-flight update/seal/unseal found in the snapshot it read
Target(tk) == FindById(tk.snap, tk.id)

\* The record the page has open: the page opens a record of the rendered list
\* or closes it, and edits and deletes records, one awaited call at a time.
CurrentStep ==
    \E t \in Slots :
        \/ ReadDone(t, FALSE, FALSE)
        \/ PurgeDone(t, FALSE, FALSE)
        \/ WriteDone(t, FALSE, FALSE)
        \/ Commit(t)

NextCurrent ==
    \/ AllIdle /\ \E record \in SeqRange(Shown) \cup {NoRecord} : setCurrentRecord(record)
    \/ AllIdle /\ \E input \in UpdateInputs : updateRecord(input, FALSE)
    \/ AllIdle /\ \E id \in Ids : deleteRecord(id, FALSE)
    \/ CurrentStep
    \/ Tick

SpecCurrent == InitRead /\ [][NextCurrent]_vars

\* ----------------------------------------------------------------- claims

\* C1: no read path returns a record whose autoDestroyAt has passed:
\* getFilteredRecords never returns a record with autoDestroyAt <= now
\* (the load path, getAllRecords, does filter such records out).
C1_ExpiredNeverShown ==
    \A i \in 1..Len(Shown) : ~Expired(Shown[i], now)

\* C2: an auto-unseal that getFilteredRecords triggered and that completed
\* without error is a real state change: when its task commits, the snapshot
\* and the persisted records both hold the record with isSealed = false.
C2_AutoUnsealPersists ==
    [][\A t \in Slots :
          (tasks[t].auto /\ tasks[t].pc = "commit" /\ tasks'[t].op = "idle")
          => /\ \A i \in 1..Len(records') :
                  records'[i].id = tasks[t].id => ~records'[i].isSealed
             /\ \A i \in 1..Len(PersistedRecords') :
                  PersistedRecords'[i].id = tasks[t].id => ~PersistedRecords'[i].isSealed]_vars

\* C3: expiry takes precedence over auto-unseal: the unsealed version that a
\* read pass makes of a record already expired at that pass is never written
\* to persisted storage.
C3_ExpiredNotUnsealed ==
    \A t \in Slots :
        (tasks[t].auto /\ Expired(Target(tasks[t]), tasks[t].rec.updatedAt))
        => tasks[t].rec \notin (SeqRange(fileRecords) \cup SeqRange(lsRecords))

\* C4: mutating calls are serialized: the commit of one call never overwrites
\* another record of the snapshot with the stale value the call read earlier,
\* and its storage write never overwrites another stored record.
C4_NoStaleOverwrite ==
    [][\A t \in Slots :
          /\ (tasks[t].op \in Mutating /\ tasks[t].pc = "commit" /\ tasks'[t].op = "idle")
             => \A i \in 1..Len(records) :
                  records[i].id # tasks[t].id => records[i] \in SeqRange(records')
          /\ (tasks[t].op \in Mutating /\ tasks[t].pc = "awaitWrite" /\ tasks'[t].pc = "commit")
             => \A i \in 1..Len(fileRecords) :
                  (fileRecords[i].id # tasks[t].id /\ ~Expired(fileRecords[i], now))
                  => fileRecords[i] \in SeqRange(fileRecords')]_vars

FailedStep(t) ==
    tasks[t].op \in Mutating /\ tasks[t].pc # "commit" /\ tasks'[t].op = "idle"

\* C5: when the storage write of a mutation fails, the error reaches the caller,
\* the records snapshot is what it was, and a snapshot that agreed with
\* persisted storage still agrees with it.
C5_FailedWriteNoDivergence ==
    [][\A t \in Slots :
          FailedStep(t)
          => /\ error' = ErrMsg(tasks[t].op)
             /\ records' = records
             /\ (records = PersistedRecords => records' = PersistedRecords')]_vars

\* C6: auto-destroy is irreversible: an id the storage service removed because
\* its autoDestroyAt had passed never appears in persisted storage again.
C6_DestroyedStaysGone ==
    \A id \in destroyed : id \notin SeqIds(PersistedRecords)

\* C7: sealRecord with autoDestroyAt earlier than sealUntil is rejected and
\* changes nothing: no record of the snapshot or of persisted storage carries
\* an autoDestroyAt that precedes its sealUntil.
C7_DestroyNotBeforeUnseal ==
    \A r \in SeqRange(records) \cup SeqRange(PersistedRecords) :
        (r.sealUntil # None /\ r.autoDestroyAt # None) => r.autoDestroyAt >= r.sealUntil

\* C8: sealRecord with a sealUntil or autoDestroyAt earlier than the time of the
\* call is rejected: no such call gets as far as a completed storage write.
C8_SealTimesNotInPast ==
    \A t \in Slots :
        (tasks[t].op = "seal" /\ tasks[t].pc = "commit")
        => /\ tasks[t].rec.sealUntil # None => tasks[t].rec.sealUntil >= tasks[t].rec.updatedAt
           /\ tasks[t].rec.autoDestroyAt # None
                => tasks[t].rec.autoDestroyAt >= tasks[t].rec.updatedAt

Permanent(r) == r.isSealed /\ r.sealUntil = None

\* C9: canViewSealed is true exactly for a record that is not sealed or whose
\* sealUntil is present and has passed; a permanently sealed record is never
\* disclosable, no render schedules its unseal, and while no store call is
\* made on it (time advances, renders, reloads and the timer only) it stays
\* permanently sealed in the snapshot and in persisted storage.
C9_PermanentSealStays ==
    /\ [](\A r \in SeqRange(records) :
            /\ canViewSealed(r, now) <=> (~r.isSealed \/ (r.sealUntil # None /\ r.sealUntil <= now))
            /\ Permanent(r) => ~canViewSealed(r, now))
    /\ [](\A t \in Slots : tasks[t].auto => ~Permanent(Target(tasks[t])))
    /\ [][\A r \in SeqRange(records) :
            Permanent(r)
            => /\ \A q \in SeqRange(records') : q.id = r.id => Permanent(q)
               /\ \A q \in SeqRange(PersistedRecords') : q.id = r.id => Permanent(q)]_vars

C9_Witness ==
    /\ now > 1
    /\ \E r \in SeqRange(records) : Permanent(r)
    /\ \E t \in Slots : tasks[t].auto /\ tasks[t].pc = "commit"

\* C10: with showSealed = false a sealed record whose sealUntil has passed is
\* unsealed first and so is part of the result, as an unsealed record; records
\* still sealed are excluded.
C10_DueShownWhenSealedHidden ==
    filter.showSealed = FALSE
    => /\ \A r \in SeqRange(records) : DueForUnseal(r, now) => r.id \in SeqIds(Shown)
       /\ \A q \in SeqRange(Shown) : ~q.isSealed

\* ---------------------------------------------- one call, nothing else in flight
\* slot t takes up a call of the page to the store operation op
Started(t, op) == tasks[t].op = "idle" /\ tasks'[t].op = op /\ ~tasks'[t].auto

InFlight(t, op) == tasks[t].op = op /\ ~tasks[t].auto

\* the storage write of the call in slot t completes
Wrote(t) == tasks[t].pc = "awaitWrite" /\ tasks'[t].pc = "commit"

\* the handler in slot t runs its set(...) and returns
Committed(t) == tasks[t].pc = "commit" /\ tasks'[t].op = "idle"

\* persisted records other than id stay as they are; one whose autoDestroyAt
\* has passed may be removed by the read
OthersKept(id) ==
    /\ \A r \in SeqRange(PersistedRecords) :
          (r.id # id /\ ~Expired(r, now)) => r \in SeqRange(PersistedRecords')
    /\ \A q \in SeqRange(PersistedRecords') :
          q.id # id => q \in SeqRange(PersistedRecords)

\* the snapshot after the step is the one before it with rec in place of the
\* record of that id, the other records and the order as they were
SnapshotReplaced(rec) ==
    /\ Len(records') = Len(records)
    /\ \A i \in 1..Len(records) :
          records'[i] = IF records[i].id = rec.id THEN rec ELSE records[i]

SameContent(old, new) ==
    /\ new.id = old.id
    /\ new.createdAt = old.createdAt
    /\ new.title = old.title
    /\ new.content = old.content

Unsealed(r) == ~r.isSealed /\ r.sealUntil = None /\ r.autoDestroyAt = None

UniqueIds(recs) ==
    \A i, j \in 1..Len(recs) : recs[i].id = recs[j].id => i = j

\* C15: in every reachable state no two records of the snapshot and no two
\* records of persisted storage have the same id.
C15_IdsUnique ==
    UniqueIds(records) /\ UniqueIds(PersistedRecords)

\* C16: createRecord with a title or a content that is empty after trimming is
\* rejected and changes nothing: no record of the snapshot or of persisted
\* storage has a blank title or a blank content.
C16_BlankNeverStored ==
    \A r \in SeqRange(records) \cup SeqRange(PersistedRecords) :
        trim(r.title) # <<>> /\ trim(r.content) # <<>>

\* the call is refused: the error is set, no task is started, and the snapshot
\* and both persisted documents are what they were
Refused(op) ==
    /\ error' = ErrMsg(op)
    /\ isLoading' = FALSE
    /\ tasks' = tasks
    /\ records' = records
    /\ currentRecord' = currentRecord
    /\ fileRecords' = fileRecords
    /\ lsRecords' = lsRecords

\* C17: updateRecord, sealRecord and unsealRecord called with an id that is not
\* in the snapshot fail with an error, start no storage call and leave the
\* snapshot unchanged.
C17_UnknownIdRefused ==
    [][\A id \in Ids :
        FindById(records, id) = NoRecord
        => /\ \A input \in UpdateInputs :
                (input.id = id /\ updateRecord(input, FALSE)) => Refused("update")
           /\ \A config \in SealConfigs :
                sealRecord(id, config, FALSE) => Refused("seal")
           /\ unsealRecord(id, FALSE) => Refused("unseal")]_vars

C17_Witness ==
    /\ error \in {"update", "seal", "unseal"}
    /\ ~isLoading
    /\ records # <<>>
    /\ \E id \in Ids : id \notin SeqIds(records)
    /\ \E t \in Slots : tasks[t].op # "idle"

C20_UnsealedHasNoSealUntil ==
    \A r \in SeqRange(records) \cup SeqRange(PersistedRecords) :
        ~r.isSealed => r.sealUntil = None


\* ------------------------------------------------------------- timestamps
\* every record the program holds: the snapshot, both persisted documents and
\* the records in-flight calls are about to write
AllRecords ==
    SeqRange(records) \cup SeqRange(fileRecords) \cup SeqRange(lsRecords)
    \cup {tasks[t].rec : t \in {u \in Slots : tasks[u].op \in SaveOps}}

\* slot t takes up an update, seal or unseal, a rendered auto-unseal included
Stamps(t) == tasks[t].op = "idle" /\ tasks'[t].op \in {"update", "seal", "unseal"}

C22_FallbackSticky == [][useFallback => useFallback']_vars

\* ------------------------------------------------------------ write failures
\* the call in slot t gets past its saveAllRecords / saveSettings in this step
SavedRecords(t) ==
    /\ tasks[t].pc \notin {"commit", "imported", "awaitSettingsWrite"}
    /\ \/ tasks[t].op = "create" /\ tasks'[t].pc = "commit"
       \/ tasks[t].op = "import" /\ tasks'[t].pc \in {"imported", "awaitSettingsWrite"}

SavedSettings(t) ==
    /\ tasks[t].pc = "awaitSettingsWrite"
    /\ tasks'[t].pc \in {"commit", "imported"}

\* the call in slot t ends in the store's catch block in this step
Failed(t, op) ==
    /\ tasks[t].op = op /\ tasks[t].pc # "commit"
    /\ tasks'[t].op = "idle"
    /\ error' = ErrMsg(op)

\* C23: saveAllRecords and saveSettings return normally only if the tier the
\* service is on after the call holds the document written; when the primary
\* and the fallback write both throw, the call throws the error of its
\* operation ('保存记录失败' for records, '保存设置失败' for settings) and the
\* caller fails or, in importData, goes to restore its backup.
C23_SaveReportsTruth ==
    [][\A t \in Slots :
        /\ (SavedRecords(t) /\ tasks[t].op = "create")
           => tasks[t].rec \in SeqRange(PersistedRecords')
        /\ (SavedRecords(t) /\ tasks[t].op = "import")
           => PersistedRecords' = tasks[t].payload
        /\ SavedSettings(t) => PersistedSettings' = tasks[t].psettings
        /\ ((tasks[t].op = "create" /\ tasks[t].pc # "commit" /\ tasks'[t].op = "idle")
            => Failed(t, "create") /\ thrown' = SaveRecordsError)
        /\ ((tasks[t].op = "settings" /\ tasks[t].pc # "commit" /\ tasks'[t].op = "idle")
            => Failed(t, "settings") /\ thrown' = SaveSettingsError)
        /\ (tasks[t].op = "import" /\ tasks[t].pc # "restore" /\ tasks'[t].pc = "restore")
           => thrown' = IF tasks[t].pc = "awaitSettingsWrite"
                        THEN SaveSettingsError ELSE SaveRecordsError]_vars

\* a settings update and a create have each failed on both tiers
C23_Witness ==
    /\ thrown = SaveSettingsError
    /\ error = ErrMsg("settings")
    /\ useFallback
    /\ faults = 1
    /\ PersistedSettings = NoSettings

\* C24: getAllRecords never throws, and a read whose records document cannot
\* be read or parsed returns the empty sequence: the loadRecords that made the
\* read gets no records.
C24_ParseFailureReadsEmpty ==
    [][\A t \in Slots, lsFail \in BOOLEAN :
        (ReadDone(t, TRUE, lsFail) /\ tasks[t].op = "load")
        => (tasks'[t].op = "load" /\ tasks'[t].pc = "commit" /\ tasks'[t].data = <<>>)]_vars

\* ----------------------------------------------------------------- import
\* the import in slot t ends in the store's catch block in this step
ImportFailed(t) == Failed(t, "import")

\* the persisted records are the ones importData found, less those its backup
\* read removed because their autoDestroyAt had passed
RecordsAsBefore(pre) ==
    \/ PersistedRecords' = pre
    \/ pre # Unparsable /\ \E t \in Times : PersistedRecords' = ValidRecords(pre, t)

\* C25: when importData fails, at whatever step, the persisted records and
\* settings are the pre-import ones when the error is surfaced, and the
\* snapshot is unchanged.
C25_FailedImportRollsBack ==
    [][\A t \in Slots :
        ImportFailed(t)
        => /\ RecordsAsBefore(tasks[t].pre)
           /\ PersistedSettings' = tasks[t].spre
           /\ records' = records]_vars

\* the file of the import in slot t is not an export bundle
Malformed(t) ==
    tasks[t].op = "import" /\ (~tasks[t].json \/ tasks[t].payload = Unparsable)

\* C26: importData of a malformed file (no JSON, or no records array) ends
\* with the import error and nothing else: every step of it leaves the
\* persisted records and settings and the snapshot as importData found them.
C26_MalformedImportRejected ==
    [][\A t \in Slots :
        Malformed(t)
        => /\ RecordsAsBefore(tasks[t].pre)
           /\ PersistedSettings' = tasks[t].spre
           /\ records' = records
           /\ tasks'[t].op = "idle" => ImportFailed(t)
           /\ tasks'[t].op \in {"idle", "import"}]_vars

\* ------------------------------------------------------------- round trip
\* the records of recs that have not expired at time t, as a set
Alive(recs, t) == SeqRange(ValidRecords(recs, t))

\* the export in slot t gets the records from getAllRecords in this step
ExportRead(t) ==
    /\ tasks[t].op = "export" /\ tasks[t].pc # "awaitSettings"
    /\ tasks'[t].pc = "awaitSettings"

\* the reload that ends an import into an empty store commits in this step
FreshImportDone(t) ==
    /\ tasks[t].op = "load" /\ tasks[t].pc = "commit" /\ tasks'[t].pc # "commit"
    /\ tasks[t].payload # Unparsable
    /\ tasks[t].pre = <<>>
    /\ records = <<>>

Sortable == AutoUnsealMap(Filtered(records, filter), now)

\* position of the record of that id in a sequence of records
IndexOf(s, id) == CHOOSE i \in 1..Len(s) : s[i].id = id

\* the sort key of x precedes that of y: times by value, titles by code units
KeyPrecedes(x, y) ==
    IF sort.field = "title" THEN StrLess(x.title, y.title)
    ELSE x[sort.field] < y[sort.field]

\* C28: getFilteredRecords returns the filtered records ordered by the
\* configured field in the configured direction, strings compared
\* case-sensitively, and records with equal keys in their snapshot order.
C28_SortedStable ==
    /\ Len(Shown) = Len(Sortable)
    /\ SeqRange(Shown) = SeqRange(Sortable)
    /\ \A i, j \in 1..Len(Shown) :
          i < j =>
            /\ IF sort.direction = "asc" THEN ~KeyPrecedes(Shown[j], Shown[i])
                                          ELSE ~KeyPrecedes(Shown[i], Shown[j])
            /\ (~KeyPrecedes(Shown[i], Shown[j]) /\ ~KeyPrecedes(Shown[j], Shown[i]))
               => IndexOf(Sortable, Shown[i].id) < IndexOf(Sortable, Shown[j].id)

\* titles "a" then "B" in the snapshot, sorted by title: "B" comes first
\* ascending, and equal updatedAt keeps the snapshot order descending
C28_Witness ==
    /\ Len(records) = 2
    /\ records[1].title = <<97>> /\ records[2].title = <<66>>
    /\ records[1].updatedAt = records[2].updatedAt
    /\ sort = [field |-> "title", direction |-> "asc"]
    /\ filter.searchText = <<>>
    /\ Len(Shown) = 2
    /\ Shown[1].id = 2

\* two code units are the same letter, case ignored
SameLetter(c, e) ==
    \/ c = e
    \/ c \in 65..90 /\ e = c + 32
    \/ e \in 65..90 /\ c = e + 32

\* sub occurs in s, case ignored
Contains(s, sub) ==
    \E k \in 0..(Len(s) - Len(sub)) : \A i \in 1..Len(sub) : SameLetter(s[k + i], sub[i])

\* C29: with a non-empty searchText getFilteredRecords returns exactly the
\* records passing the other filters whose title or content contains the text,
\* case ignored; with an empty searchText the search excludes no record.
C29_SearchExact ==
    SeqIds(Shown) =
        {r.id : r \in {x \in SeqRange(SealedFilter(DateFilter(records, filter), filter)) :
                        \/ filter.searchText = <<>>
                        \/ Contains(x.title, filter.searchText)
                        \/ Contains(x.content, filter.searchText)}}

\* the text 'Ab' finds the record whose content is "aB" and not the other one
C29_Witness ==
    /\ filter.searchText = <<65, 98>>
    /\ Len(records) = 2
    /\ records[1].content = <<97, 66>> /\ records[2].content = <<67>>
    /\ SeqIds(Shown) = {1}

\* ---------------------------------------------------------------- statistics
\* getStats of the home page counts over the store's records as they are;
\* images and music are not part of the records modelled here.
getStats(recs) ==
    [total |-> Len(recs),
     sealed |-> Cardinality({i \in 1..Len(recs) : recs[i].isSealed})]

\* the statistics the page renders
stats == getStats(records)

\* C30: the statistics are those of the reconciled records: total does not
\* count a record whose autoDestroyAt has passed and sealed does not count a
\* record whose sealUntil has passed.
C30_StatsReconciled ==
    /\ stats.total = Cardinality({i \in 1..Len(records) : ~Expired(records[i], now)})
    /\ stats.sealed =
         Cardinality({i \in 1..Len(records) :
                        /\ records[i].isSealed
                        /\ ~Expired(records[i], now)
                        /\ ~DueForUnseal(records[i], now)})

\* --------------------------------------------------- destruction after unseal
\* C31: a record sealed until T1 and to be destroyed at T2 > T1 is still
\* destroyed: while only renders, reloads and the timer act, a read made in
\* [T1, T2) leaves the record persisted with its autoDestroyAt, so that the
\* reload at T2 removes it.
C31_DestroySurvivesAutoUnseal ==
    [][\A r \in SeqRange(PersistedRecords) :
          (r.isSealed /\ r.sealUntil # None /\ r.autoDestroyAt # None
             /\ r.sealUntil < r.autoDestroyAt /\ now < r.autoDestroyAt)
          => \A q \in SeqRange(PersistedRecords') :
                q.id = r.id => q.autoDestroyAt = r.autoDestroyAt]_vars

\* ------------------------------------------------------ reconciled read value
\* the seal fields of two versions of a record agree
SameSeal(a, b) ==
    /\ a.isSealed = b.isSealed
    /\ a.sealUntil = b.sealUntil
    /\ a.autoDestroyAt = b.autoDestroyAt

\* C32: the value getFilteredRecords returns is the reconciled truth: when the
\* call returns, the store already holds every returned record with the seal
\* fields returned, and when an auto-unseal the call started completes, the
\* store holds the record with the seal fields that were returned for it.
C32_ReturnedIsReconciled ==
    [][/\ getFilteredRecords(FALSE)
          => \A q \in SeqRange(Shown) : SameSeal(FindById(records', q.id), q)
       /\ \A t \in Slots :
            (tasks[t].auto /\ tasks[t].pc = "commit" /\ tasks'[t].op = "idle")
            => SameSeal(FindById(records', tasks[t].id), shownUnsealed(Target(tasks[t])))]_vars

\* ------------------------------------------------- reconciliation and filter
\* C33: getFilteredRecords reconciles every record of the snapshot, whatever
\* the filter: a call made in any state starts the unseal of every sealed
\* record whose sealUntil has passed, also of those the search text or
\* showSealed keeps out of the returned list.
C33_ReconcilesEveryRecord ==
    SeqIds(AutoUnsealDue(records, filter, now))
      = {r.id : r \in {x \in SeqRange(records) : DueForUnseal(x, now)}}
\* ------------------------------------------------------------- render frame
\* C34: getFilteredRecords never changes the snapshot itself: a call leaves
\* records, currentRecord, filter and sort as they are, what it starts are
\* unsealRecord calls only, and when no record of the snapshot is due for
\* unseal it leaves the whole store state and all calls in flight unchanged.
C34_RenderKeepsSnapshot ==
    [][getFilteredRecords(FALSE)
       => /\ UNCHANGED <<records, currentRecord, filter, sort>>
          /\ \A t \in Slots :
                tasks'[t] # tasks[t] => (tasks'[t].op = "unseal" /\ tasks'[t].auto)
          /\ (\A r \in SeqRange(records) : ~DueForUnseal(r, now))
               => UNCHANGED <<storeVars, tasks>>]_vars

\* a render has started the unseal of a due record; the snapshot still holds
\* the record as it was
C34_Witness ==
    \E t \in Slots :
        /\ tasks[t].auto /\ tasks[t].pc = "awaitRead"
        /\ tasks[t].snap = records
        /\ DueForUnseal(FindById(records, tasks[t].id), now)
        /\ isLoading

\* ------------------------------------------------------- notification timer
\* slot t, a run of the notification check, takes the step
TimerStep(t) ==
    /\ tasks[t].op = "notify"
    /\ tasks'[t] # tasks[t]
    /\ \A u \in Slots \ {t} : tasks'[u] = tasks[u]

\* C35: the periodic notification check never takes a record out of
\* persisted storage while the snapshot keeps it, and never overwrites what a
\* store mutation has written: its steps leave every unexpired persisted
\* record in place.
C35_TimerReadReconciled ==
    [][\A t \in Slots :
          TimerStep(t)
          => \A r \in SeqRange(PersistedRecords) :
                /\ r \notin SeqRange(PersistedRecords') => r.id \notin SeqIds(records')
                /\ ~Expired(r, now) => r \in SeqRange(PersistedRecords')]_vars

\* ------------------------------------------------------------ hidden content
\* the ids of a list of records, in order
IdList(s) == [i \in 1..Len(s) |-> s[i].id]

\* the snapshot with the content of record r replaced
WithContent(r, content) == ReplaceById(records, r.id, [r EXCEPT !.content = content])

\* C36: the content of a record that is sealed and not disclosable does not
\* show through search: whatever that content is, getFilteredRecords returns
\* the same list of ids under the current search text, filter and sort.
C36_SearchHidesSealedContent ==
    \A r \in SeqRange(records) :
        ~canViewSealed(r, now)
        => \A content \in ViewContents :
              IdList(FilteredRecords(WithContent(r, content), filter, sort, now)) = IdList(Shown)

\* ------------------------------------------------------ snapshot and storage
\* no record has reached its autoDestroyAt: none was removed and none is due
NoneExpired(recs) == destroyed = {} /\ \A r \in SeqRange(recs) : ~Expired(r, now)

\* a createRecord, updateRecord, deleteRecord, sealRecord, unsealRecord or
\* importData in slot t completes in this step
Completed(t) ==
    /\ tasks[t].pc = "commit" /\ tasks'[t].pc # "commit"
    /\ \/ tasks[t].op \in Mutating
       \/ tasks[t].op = "load" /\ tasks[t].payload # Unparsable

\* C37: with operations awaited one by one, no storage failure, unique ids and
\* no record reaching its autoDestroyAt, after every completed createRecord,
\* updateRecord, deleteRecord, sealRecord, unsealRecord and importData the
\* snapshot is the persisted record sequence: same records, same order.
C37_SnapshotIsPersisted ==
    [][\A t \in Slots :
          (/\ Completed(t)
           /\ UniqueIds(PersistedRecords')
           /\ NoneExpired(records)' /\ NoneExpired(PersistedRecords)')
          => records' = PersistedRecords']_vars

\* two records were created or imported and one was changed at time 2; the
\* snapshot and the document agree
C37_Witness ==
    /\ AllIdle
    /\ calls = MaxCalls
    /\ Len(records) = 2
    /\ records[1].updatedAt = 2 /\ records[1].isSealed
    /\ NoneExpired(records)
    /\ records = PersistedRecords

\* ---------------------------------------------------------- read your writes
\* the getAllRecords of the reload that follows the saveAllRecords(rs) of an
\* import returns in this step
ReadAfterSave(t) ==
    /\ tasks[t].op = "load"
    /\ tasks[t].payload \notin {<<>>, Unparsable}
    /\ tasks[t].pc \in {"awaitRead", "awaitPurge", "gotAll"}
    /\ tasks'[t].pc = "commit"

\* C38: after saveAllRecords(rs) returned successfully, on whichever tier, the
\* next getAllRecords, itself meeting no I/O failure, returns exactly the
\* records of rs whose autoDestroyAt is absent or in the future.
C38_ReadYourWrites ==
    [][\A t \in Slots :
          (/\ ReadAfterSave(t)
           /\ \/ ReadDone(t, FALSE, FALSE)
              \/ PurgeDone(t, FALSE, FALSE)
              \/ Resume(t, FALSE))
          => tasks'[t].data = ValidRecords(tasks[t].payload, now)]_vars

\* ------------------------------------------------------- delete and current
\* the records of q are records of p, in p's order
KeepsOrder(p, q) ==
    \A i, j \in 1..Len(q) :
        i < j => \E a, b \in 1..Len(p) : a < b /\ p[a] = q[i] /\ p[b] = q[j]

====
